---- MODULE Spec2Model ----
(***************************************************************************)
(* Model of the two telegraf input plugins of this repository:             *)
(*   plugins/inputs/imonnit   (Sensor:   Gather, SensorList, NetworkList,   *)
(*                             ProcessResults)                              *)
(*   plugins/inputs/hobolink  (HOBOlink: Gather, gatherStats, parseJSON)    *)
(*                                                                         *)
(* imonnit.go holds the package twice: lines 1-264, and from line 266 on an *)
(* earlier copy whose Gather has neither the token check nor the call of   *)
(* ProcessResults.  The model follows the first.                           *)
(*                                                                         *)
(* A Go string is a sequence of one-character strings (one per rune).      *)
(* UTF-8 is self-synchronising, so substring search on runes and on bytes  *)
(* agree; the separator written in imonnit.go line 118 is the two runes    *)
(* U+00C2 U+00B0 (bytes C3 82 C2 B0), not the single rune U+00B0.          *)
(***************************************************************************)
EXTENDS Integers, Sequences, FiniteSets, TLC

(***************************************************************************)
(* Bounds of the model.                                                    *)
(***************************************************************************)
MaxSegs == 10
MaxSensors == 2
MaxClock == 1
MaxSerials == 3

(***************************************************************************)
(* Go standard library: strings.Index / Contains / Split.                  *)
(***************************************************************************)
HasPrefixAt(s, sub, i) ==
    /\ i + Len(sub) - 1 <= Len(s)
    /\ \A j \in 1..Len(sub) : s[i + j - 1] = sub[j]

\* strings.Index: first position (1-based) of sub in s, 0 when absent.
Index(s, sub) ==
    LET hits == {i \in 1..Len(s) : HasPrefixAt(s, sub, i)}
    IN IF hits = {} THEN 0 ELSE CHOOSE i \in hits : \A k \in hits : i <= k

\* strings.Contains
Contains(s, sub) == Index(s, sub) # 0

\* strings.Split(s, sep) for a non-empty sep: the pieces between the
\* non-overlapping occurrences of sep, left to right; Split("", sep) = [""].
RECURSIVE Split(_, _)
Split(s, sep) ==
    LET i == Index(s, sep)
    IN IF i = 0
       THEN <<s>>
       ELSE <<SubSeq(s, 1, i - 1)>> \o Split(SubSeq(s, i + Len(sep), Len(s)), sep)

(***************************************************************************)
(* Go standard library: strconv.ParseFloat(s, 64), decimal grammar         *)
(*   [+-] digits [. digits] [ (e|E) [+-] digits ]                          *)
(* A float64 is kept as its decimal value m * 10^e with m not divisible by *)
(* 10 (m = 0, e = 0 for zero), or as an infinity (inf, m = +1 / -1).       *)
(* On a syntax error ParseFloat returns (0, ErrSyntax); on a well-formed   *)
(* text whose value overflows float64 it returns (+Inf/-Inf, ErrRange).    *)
(* The words Inf, Infinity, NaN, hexadecimal floats and digit-separating   *)
(* underscores are outside the texts this model feeds it.                  *)
(***************************************************************************)
DigitChars == <<"0", "1", "2", "3", "4", "5", "6", "7", "8", "9">>
IsDigit(c) == \E i \in 1..10 : DigitChars[i] = c
DigitVal(c) == (CHOOSE i \in 1..10 : DigitChars[i] = c) - 1

Finite(m, e) == [inf |-> FALSE, m |-> m, e |-> e]
Infinite(sign) == [inf |-> TRUE, m |-> sign, e |-> 0]
Zero == Finite(0, 0)

\* value of a sequence of digit characters
RECURSIVE DigitsToInt(_)
DigitsToInt(ds) ==
    IF ds = <<>> THEN 0
    ELSE 10 * DigitsToInt(SubSeq(ds, 1, Len(ds) - 1)) + DigitVal(ds[Len(ds)])

RECURSIVE NumDigits(_)
NumDigits(n) == IF n < 10 THEN 1 ELSE 1 + NumDigits(n \div 10)

\* m * 10^e with the trailing zeros of m moved into e
RECURSIVE Normalise(_, _)
Normalise(m, e) ==
    IF m = 0 THEN Zero
    ELSE IF m % 10 = 0 THEN Normalise(m \div 10, e + 1)
    ELSE Finite(m, e)

\* the first three significant digits of m > 0 (padded with zeros)
RECURSIVE LeadingThree(_)
LeadingThree(m) ==
    IF m >= 1000 THEN LeadingThree(m \div 10)
    ELSE IF m < 100 THEN LeadingThree(m * 10)
    ELSE m

\* m * 10^e > MaxFloat64 = 1.797...e308 (exact for mantissas whose first
\* three digits are not 179)
Overflows(m, e) ==
    /\ m > 0
    /\ \/ NumDigits(m) + e > 309
       \/ NumDigits(m) + e = 309 /\ LeadingThree(m) >= 180

\* m * 10^e rounds to zero (below half the smallest denormal, 4.9e-324):
\* ParseFloat then returns 0 and no error
Underflows(m, e) == m > 0 /\ NumDigits(m) + e < -323

\* the length of the mantissa at s[from..]: the longest run of digits
\* holding at most one "."
MantissaOk(s, from, k) ==
    /\ \A j \in from .. from + k - 1 : IsDigit(s[j]) \/ s[j] = "."
    /\ Cardinality({j \in from .. from + k - 1 : s[j] = "."}) <= 1
MantissaLen(s, from) ==
    CHOOSE k \in 0 .. Len(s) - from + 1 :
        /\ MantissaOk(s, from, k)
        /\ \A k2 \in 0 .. Len(s) - from + 1 : MantissaOk(s, from, k2) => k2 <= k

\* the exponent part at s[p..]: none (the text must end at p), or e / E, an
\* optional sign and at least one digit up to the end of the text
AllDigits(ds) == ds # <<>> /\ \A j \in 1..Len(ds) : IsDigit(ds[j])
SignedDigits(t) ==
    IF t # <<>> /\ t[1] \in {"+", "-"}
    THEN [ok |-> AllDigits(Tail(t)), sign |-> IF t[1] = "-" THEN -1 ELSE 1, digits |-> Tail(t)]
    ELSE [ok |-> AllDigits(t), sign |-> 1, digits |-> t]
ExponentValue(sd) == [ok |-> sd.ok, exp |-> IF sd.ok THEN sd.sign * DigitsToInt(sd.digits) ELSE 0]
ExponentPart(s, p) ==
    IF p > Len(s) THEN [ok |-> TRUE, exp |-> 0]
    ELSE IF s[p] \in {"e", "E"} THEN ExponentValue(SignedDigits(SubSeq(s, p + 1, Len(s))))
    ELSE [ok |-> FALSE, exp |-> 0]

\* the number of digits after the "." of a mantissa
FracLen(mant) == IF Index(mant, <<".">>) = 0 THEN 0 ELSE Len(mant) - Index(mant, <<".">>)

FloatOf(sign, v) ==
    IF Overflows(v.m, v.e) THEN [f |-> Infinite(sign), err |-> "range"]
    ELSE IF Underflows(v.m, v.e) THEN [f |-> Zero, err |-> "nil"]
    ELSE [f |-> Finite(sign * v.m, v.e), err |-> "nil"]

Assemble(sign, mdigits, frac, ex) ==
    IF mdigits = <<>> \/ ~ex.ok
    THEN [f |-> Zero, err |-> "syntax"]
    ELSE FloatOf(sign, Normalise(DigitsToInt(mdigits), ex.exp - frac))

ParseUnsigned(sign, t, mantLen) ==
    Assemble(sign, SelectSeq(SubSeq(t, 1, mantLen), IsDigit),
             FracLen(SubSeq(t, 1, mantLen)), ExponentPart(t, mantLen + 1))

ParseFloat(s) ==
    IF s # <<>> /\ s[1] \in {"+", "-"}
    THEN ParseUnsigned(IF s[1] = "-" THEN -1 ELSE 1, Tail(s), MantissaLen(Tail(s), 1))
    ELSE ParseUnsigned(1, s, MantissaLen(s, 1))

(***************************************************************************)
(* Texts.                                                                  *)
(***************************************************************************)
Bar == <<"|">>
Comma == <<",">>
Space == <<" ">>
KWh == <<"k", "W", "h">>
DegreeSign == <<"°">>                 \* U+00B0
MojibakeDegree == <<"Â", "°">>        \* U+00C2 U+00B0, imonnit.go line 118
UnitKWh == KWh
UnitAmps == <<"a", "m", "p", "s">>
UnitC == <<"C">>

RECURSIVE NatToChars(_)
NatToChars(n) ==
    IF n < 10 THEN <<DigitChars[n + 1]>>
    ELSE NatToChars(n \div 10) \o <<DigitChars[(n % 10) + 1]>>

RECURSIVE Join(_, _)
Join(parts, sep) ==
    IF parts = <<>> THEN <<>>
    ELSE IF Len(parts) = 1 THEN parts[1]
    ELSE parts[1] \o sep \o Join(Tail(parts), sep)

\* sensor names: k segments "s1|s2|...|sk", k bar-separated empty segments,
\* and 8 segments followed by a trailing bar
SegText(i) == <<"s">> \o NatToChars(i)
PlainName(k) == Join([i \in 1..k |-> SegText(i)], Bar)
EmptySegName(k) == Join([i \in 1..k |-> <<>>], Bar)
TrailingBarName == PlainName(8) \o Bar
Names ==
    {PlainName(k) : k \in 1..MaxSegs}
        \cup {EmptySegName(1), EmptySegName(9), TrailingBarName}

\* numerals with the value they denote
Num125 == [text |-> <<"1", "2", ".", "5">>, val |-> Finite(125, -1)]
NumNeg42 == [text |-> <<"-", "4", ".", "2">>, val |-> Finite(-42, -1)]
Num15 == [text |-> <<"1", ".", "5">>, val |-> Finite(15, -1)]
Num2 == [text |-> <<"2">>, val |-> Finite(2, 0)]
Num05 == [text |-> <<"0", ".", "5">>, val |-> Finite(5, -1)]
Numerals == {Num125, NumNeg42, Num15, Num2, Num05}
Huge == <<"1", "e", "9", "9", "9">>   \* well-formed, above MaxFloat64
Junk == <<"a", "b", "c">>

\* "<num>°C" and "<num>Â°C"
SimpleDeg(num) == num \o DegreeSign \o <<"C">>
SimpleMoji(num) == num \o MojibakeDegree \o <<"C">>

\* "<n> kWh, Avg <x> A, Max <y> A, Min <z> A"
CompositeThree(n, x, y, z) ==
    n \o Space \o KWh \o Comma \o Space \o <<"A", "v", "g">> \o Space \o x \o Space \o <<"A">>
      \o Comma \o Space \o <<"M", "a", "x">> \o Space \o y \o Space \o <<"A">>
      \o Comma \o Space \o <<"M", "i", "n">> \o Space \o z \o Space \o <<"A">>

\* "<n> kWh, Avg I <x> A, Max I <y> A, Min I <z> A": the number is the
\* fourth piece of each comma segment when it is split on single spaces
CompositeFour(n, x, y, z) ==
    n \o Space \o KWh \o Comma \o Space \o <<"A", "v", "g">> \o Space \o <<"I">> \o Space \o x \o Space \o <<"A">>
      \o Comma \o Space \o <<"M", "a", "x">> \o Space \o <<"I">> \o Space \o y \o Space \o <<"A">>
      \o Comma \o Space \o <<"M", "i", "n">> \o Space \o <<"I">> \o Space \o z \o Space \o <<"A">>

CompositeArgs ==
    {<<Num125, Num15, Num2, Num05>>, <<Num2, Num05, Num125, Num15>>}
Texts(a) == <<a[1].text, a[2].text, a[3].text, a[4].text>>

\* the four texts of a composite reading: all numbers, two that are no
\* numbers, one above the float64 range
FourTexts ==
    {Texts(a) : a \in CompositeArgs}
        \cup { <<Junk, Num15.text, Junk, Num05.text>>,
               <<Num2.text, Huge, Num125.text, Num05.text>> }
SimpleTexts == {NumNeg42.text, Num2.text, Huge, Junk}

ThreeReadings == {CompositeThree(t[1], t[2], t[3], t[4]) : t \in {Texts(a) : a \in CompositeArgs}}
FourReadings == {CompositeFour(t[1], t[2], t[3], t[4]) : t \in FourTexts}
DegReadings == {SimpleDeg(n.text) : n \in {NumNeg42, Num2}}
MojiReadings == {SimpleMoji(t) : t \in SimpleTexts}
OddReadings ==
    { <<>>,                                             \* ""
      Junk,                                             \* "abc"
      <<"5">> \o Space \o KWh,                          \* "5 kWh"
      <<"5">> \o Space \o KWh \o Comma \o <<"A">> \o Comma \o <<"B">> \o Comma \o <<"C">> }
                                                        \* "5 kWh,A,B,C"
Readings == ThreeReadings \cup FourReadings \cup DegReadings \cup MojiReadings \cup OddReadings

\* SensorDetail, the two fields ProcessResults reads
SensorDetail(name, reading) == [SensorName |-> name, CurrentReading |-> reading]
Sensors ==
    {SensorDetail(n, SimpleMoji(NumNeg42.text)) : n \in Names}
        \cup {SensorDetail(PlainName(9), r) : r \in Readings}
        \cup {SensorDetail(PlainName(2), r) : r \in ThreeReadings \cup FourReadings}
        \cup {SensorDetail(PlainName(10), Junk)}

RECURSIVE SeqsUpTo(_, _)
SeqsUpTo(S, n) ==
    IF n = 0 THEN {<<>>}
    ELSE LET shorter == SeqsUpTo(S, n - 1)
         IN shorter \cup {Append(q, x) : q \in {q2 \in shorter : Len(q2) = n - 1}, x \in S}
\* the records that also appear in lists of more than one record
ListSensors ==
    { SensorDetail(PlainName(9), SimpleMoji(NumNeg42.text)),
      SensorDetail(PlainName(9), SimpleDeg(Num2.text)),
      SensorDetail(PlainName(2), CompositeFour(Num125.text, Num15.text, Num2.text, Num05.text)),
      SensorDetail(PlainName(9), CompositeThree(Num125.text, Num15.text, Num2.text, Num05.text)),
      SensorDetail(PlainName(9), <<"5">> \o Space \o KWh),
      SensorDetail(PlainName(10), Junk) }
SensorLists == {<<x>> : x \in Sensors} \cup SeqsUpTo(ListSensors, MaxSensors)

(***************************************************************************)
(* imonnit: Sensor.ProcessResults.                                         *)
(***************************************************************************)
SegmentDepth == 9
Measurement == "imonnit"

\* NameTags with the depth test written >= instead of ==
NameTagsAtLeast(name) ==
    LET siteName == Split(name, Bar)
    IN IF Len(siteName) >= SegmentDepth
       THEN [customer |-> siteName[1], country |-> siteName[2], store |-> siteName[3],
             zone |-> siteName[4], equipment |-> siteName[5],
             equipmentType |-> siteName[6], cargo |-> siteName[7],
             sensor |-> siteName[8], sensorID |-> siteName[9]]
       ELSE [customer |-> name]

\* lines 77-94: the tags taken from the sensor name
NameTags(name) ==
    LET siteName == Split(name, Bar)
    IN IF Len(siteName) = SegmentDepth
       THEN [customer |-> siteName[1], country |-> siteName[2], store |-> siteName[3],
             zone |-> siteName[4], equipment |-> siteName[5],
             equipmentType |-> siteName[6], cargo |-> siteName[7],
             sensor |-> siteName[8], sensorID |-> siteName[9]]
       ELSE [customer |-> name]

\* tags["unit"] = u
WithUnit(tags, u) ==
    [k \in DOMAIN tags \cup {"unit"} |-> IF k = "unit" THEN u ELSE tags[k]]

\* acc.AddFields(measurement, fields, tags, ts); src is the index of the
\* sensor record the call was made for
AddFields(fields, tags, ts, src) ==
    [measurement |-> Measurement, fields |-> fields, tags |-> tags, ts |-> ts, src |-> src]

\* lines 96-116: a reading that contains "kWh".  vals[1..3] and the fourth
\* space-separated piece of each are indexed without a length check: an
\* index out of range panics before either AddFields call.
KWhPoints(sensor, tags, ts, src) ==
    LET vals == Split(sensor.CurrentReading, Comma)
        piece(j) == Split(vals[j], Space)
        inRange == Len(vals) >= 4 /\ \A j \in 2..4 : Len(piece(j)) >= 4
    IN IF ~inRange
       THEN [panic |-> TRUE, calls |-> <<>>]
       ELSE [panic |-> FALSE,
             calls |->
                << AddFields([current |-> ParseFloat(piece(1)[1]).f],
                             WithUnit(tags, UnitKWh), ts, src),
                   AddFields([average |-> ParseFloat(piece(2)[4]).f,
                              maximum |-> ParseFloat(piece(3)[4]).f,
                              minimum |-> ParseFloat(piece(4)[4]).f],
                             WithUnit(tags, UnitAmps), ts, src) >>]

\* lines 117-124: any other reading
TemperaturePoints(sensor, tags, ts, src) ==
    LET vals == Split(sensor.CurrentReading, MojibakeDegree)
    IN [panic |-> FALSE,
        calls |-> << AddFields([current |-> ParseFloat(vals[1]).f],
                               WithUnit(tags, UnitC), ts, src) >>]

\* lines 77-124: one iteration of the loop
ProcessSensor(sensor, ts, src) ==
    LET tags == NameTags(sensor.SensorName)
    IN IF Contains(sensor.CurrentReading, KWh)
       THEN KWhPoints(sensor, tags, ts, src)
       ELSE TemperaturePoints(sensor, tags, ts, src)

\* lines 74-129: the loop over sensors.Result from record i on; a panic
\* ends the call, the AddFields calls made before it stay made
RECURSIVE ProcessFrom(_, _, _)
ProcessFrom(list, i, ts) ==
    IF i > Len(list) THEN [panic |-> FALSE, calls |-> <<>>]
    ELSE LET one == ProcessSensor(list[i], ts, i)
         IN IF one.panic THEN one
            ELSE LET rest == ProcessFrom(list, i + 1, ts)
                 IN [panic |-> rest.panic, calls |-> one.calls \o rest.calls]

ProcessResults(list, clock) == ProcessFrom(list, 1, clock)

(***************************************************************************)
(* The vendor's answer to one HTTP request, as the client sees it: a       *)
(* transport failure, or a status code with a body that either is the JSON *)
(* envelope (list: its records) or is not JSON at all.                     *)
(***************************************************************************)
StatusOK == 200
StatusCodes == {200, 204, 404, 500}
Is2xx(code) == code >= 200 /\ code <= 299

TransportFailure == [kind |-> "transport", status |-> 0, json |-> FALSE, list |-> <<>>]
HttpResponse(code, json, list) == [kind |-> "http", status |-> code, json |-> json, list |-> list]
NoResponse == [kind |-> "none", status |-> 0, json |-> FALSE, list |-> <<>>]

\* answers to GET <server>/sensorlist/<token>
SensorResponses ==
    {TransportFailure}
        \cup {HttpResponse(c, FALSE, <<>>) : c \in StatusCodes}
        \cup {HttpResponse(c, TRUE, l) : c \in StatusCodes, l \in SensorLists}

\* answers whose records the caller does not read (networklist, hobolink)
PlainResponses ==
    {TransportFailure}
        \cup {HttpResponse(c, j, <<>>) : c \in StatusCodes, j \in BOOLEAN}

\* the outcome of one vendor call: err is "nil" or the kind of the error
\* returned, decoded tells whether the body was handed to the JSON decoder,
\* codes are the status codes the error message names
CallResult(op, err, decoded, codes, list) ==
    [op |-> op, err |-> err, decoded |-> decoded, codes |-> codes, list |-> list]
NoResult == CallResult("none", "nil", FALSE, <<>>, <<>>)

\* imonnit.go lines 138-149 and 159-169: s.c.Do, then the decoder; the
\* status code of the response is not read
DoAndDecode(op, r) ==
    IF r.kind = "transport" THEN CallResult(op, "transport", FALSE, <<>>, <<>>)
    ELSE IF ~r.json THEN CallResult(op, "decode", TRUE, <<>>, <<>>)
    ELSE CallResult(op, "nil", TRUE, <<>>, r.list)

\* hobolink.go lines 96-112: h.client.Do, the status check, the decoder
ParseJSONResponse(r) ==
    IF r.kind = "transport" THEN CallResult("parseJSON", "transport", FALSE, <<>>, <<>>)
    ELSE IF r.status # StatusOK
    THEN CallResult("parseJSON", "status", FALSE, <<r.status, StatusOK>>, <<>>)
    ELSE IF ~r.json THEN CallResult("parseJSON", "decode", TRUE, <<>>, <<>>)
    ELSE CallResult("parseJSON", "nil", TRUE, <<>>, r.list)

(***************************************************************************)
(* State.                                                                  *)
(***************************************************************************)
VARIABLES
    adapter,    \* which plugin this instance is: "imonnit" or "hobolink"
    client,     \* s.c / h.client: 0 is nil, n > 0 the n-th client constructed
    created,    \* number of createHTTPClient calls so far
    now,        \* the wall clock time.Now() reads
    pc,         \* Gather: "idle", "request", "spawn", "returned", "panicked"
    token,      \* s.Token at the last imonnit Gather
    serials,    \* h.SerialNumbers
    spawned,    \* hobolink Gather: goroutines started by the loop so far
    wg,         \* hobolink Gather: the WaitGroup counter
    task,       \* hobolink Gather: each goroutine, "unborn", "running", "done"
    \* what the operation started last (a Gather, or a direct call of
    \* NetworkList or gatherStats) has done so far:
    reqs,       \* the clients of the HTTP requests a Gather issued
    resp,       \* the vendor's answer to its request
    result,     \* outcome of its SensorList / NetworkList / parseJSON
    sensors,    \* the list handed to ProcessResults
    calls,      \* the AddFields calls, in order
    gatherErr   \* what Gather returned: "none" while it has not

vars == <<adapter, client, created, now, pc, token, serials, spawned, wg, task,
          reqs, resp, result, sensors, calls, gatherErr>>

\* s.Token: empty, well-formed, or one that makes the request URL unparsable
Tokens == {"", "tok", "%zz"}
UrlParses(tok) == tok # "%zz"

\* h.SerialNumbers: n distinct serial numbers, written 1..n
SerialLists == {[i \in 1..n |-> i] : n \in 0..MaxSerials}

Init ==
    /\ adapter \in {"imonnit", "hobolink"}
    /\ client = 0
    /\ created = 0
    /\ now = 0
    /\ pc = "idle"
    /\ token = ""
    /\ serials \in (IF adapter = "hobolink" THEN SerialLists ELSE {<<>>})
    /\ spawned = 0
    /\ wg = 0
    /\ task = [i \in 1..Len(serials) |-> "unborn"]
    /\ reqs = <<>>
    /\ resp = NoResponse
    /\ result = NoResult
    /\ sensors = <<>>
    /\ calls = <<>>
    /\ gatherErr = "none"

\* the clock advances
Tick ==
    /\ now < MaxClock
    /\ now' = now + 1
    /\ UNCHANGED <<adapter, client, created, pc, token, serials, spawned, wg, task,
                   reqs, resp, result, sensors, calls, gatherErr>>

\* imonnit.go lines 50-57, hobolink.go lines 45-52: the client is built
\* when the field is nil; createHTTPClient returns no error
NeedsClientAlways(c) == TRUE     \* the nil check left out
NeedsClient(c) == c = 0
ClientAfter(c, made) == IF NeedsClient(c) THEN made + 1 ELSE c
CreatedAfter(c, made) == IF NeedsClient(c) THEN made + 1 ELSE made

Callable == pc \in {"idle", "returned"}

(***************************************************************************)
(* imonnit: Sensor.Gather up to the point where SensorList blocks in       *)
(* s.c.Do (lines 45-61 and 132-138).                                       *)
(***************************************************************************)
ImonnitGatherBegin(tok) ==
    /\ adapter = "imonnit"
    /\ Callable
    /\ token' = tok
    /\ resp' = NoResponse
    /\ sensors' = <<>>
    /\ calls' = <<>>
    /\ IF tok = ""
       THEN /\ pc' = "returned"
            /\ gatherErr' = "token"
            /\ result' = NoResult
            /\ reqs' = <<>>
            /\ UNCHANGED <<client, created>>
       ELSE /\ client' = ClientAfter(client, created)
            /\ created' = CreatedAfter(client, created)
            /\ IF ~UrlParses(tok)
               THEN /\ pc' = "returned"
                    /\ gatherErr' = "request"
                    /\ result' = CallResult("SensorList", "request", FALSE, <<>>, <<>>)
                    /\ reqs' = <<>>
               ELSE /\ pc' = "request"
                    /\ gatherErr' = "none"
                    /\ result' = NoResult
                    /\ reqs' = <<client'>>
    /\ UNCHANGED <<adapter, now, serials, spawned, wg, task>>

(***************************************************************************)
(* imonnit: the answer arrives; SensorList returns, Gather hands the list  *)
(* to ProcessResults and returns (lines 138-149, 61-70, 74-129).           *)
(***************************************************************************)
ImonnitGatherFinish(r) ==
    /\ adapter = "imonnit"
    /\ pc = "request"
    /\ resp' = r
    /\ LET res == DoAndDecode("SensorList", r)
           out == ProcessResults(res.list, now)
       IN /\ result' = res
          /\ IF res.err # "nil"
             THEN /\ pc' = "returned"
                  /\ gatherErr' = res.err
                  /\ UNCHANGED <<sensors, calls>>
             ELSE /\ sensors' = res.list
                  /\ calls' = out.calls
                  /\ pc' = IF out.panic THEN "panicked" ELSE "returned"
                  /\ gatherErr' = IF out.panic THEN "none" ELSE "nil"
    /\ UNCHANGED <<adapter, client, created, now, token, serials, spawned, wg, task, reqs>>

(***************************************************************************)
(* imonnit: Sensor.NetworkList called on its own (lines 153-170).  With a  *)
(* nil client s.c.Do dereferences nil and panics.                          *)
(***************************************************************************)
ImonnitNetworkList(r) ==
    /\ adapter = "imonnit"
    /\ Callable
    /\ IF ~UrlParses(token)
       THEN /\ result' = CallResult("NetworkList", "request", FALSE, <<>>, <<>>)
            /\ resp' = NoResponse
            /\ UNCHANGED pc
       ELSE IF client = 0
       THEN /\ result' = CallResult("NetworkList", "panic", FALSE, <<>>, <<>>)
            /\ pc' = "panicked"
            /\ resp' = NoResponse
       ELSE /\ result' = DoAndDecode("NetworkList", r)
            /\ resp' = r
            /\ UNCHANGED pc
    /\ reqs' = <<>>
    /\ sensors' = <<>>
    /\ calls' = <<>>
    /\ gatherErr' = "none"
    /\ UNCHANGED <<adapter, client, created, now, token, serials, spawned, wg, task>>

(***************************************************************************)
(* hobolink: HOBOlink.Gather (lines 44-65).                                *)
(***************************************************************************)
\* line 55: wg.Add(len(h.SerialNumbers))
WgAdd(counter, list) == counter + Len(list)
\* a Wait that does not wait
WaitReturnsAtOnce(counter) == TRUE

\* line 63: wg.Wait() returns when the counter is zero
WaitReturns(counter) == counter = 0

\* lines 45-55
HoboGatherBegin ==
    /\ adapter = "hobolink"
    /\ Callable
    /\ client' = ClientAfter(client, created)
    /\ created' = CreatedAfter(client, created)
    /\ wg' = WgAdd(0, serials)
    /\ spawned' = 0
    /\ task' = [i \in 1..Len(serials) |-> "unborn"]
    /\ pc' = "spawn"
    /\ gatherErr' = "none"
    /\ reqs' = <<>>
    /\ resp' = NoResponse
    /\ result' = NoResult
    /\ UNCHANGED <<adapter, now, token, serials, sensors, calls>>

\* lines 57-61: one iteration of the loop, the go statement
HoboSpawn ==
    /\ adapter = "hobolink"
    /\ pc = "spawn"
    /\ spawned < Len(serials)
    /\ spawned' = spawned + 1
    /\ task' = [task EXCEPT ![spawned + 1] = "running"]
    /\ UNCHANGED <<adapter, client, created, now, pc, token, serials, wg,
                   reqs, resp, result, sensors, calls, gatherErr>>

\* lines 58-60: the goroutine of serial i; its body is the deferred
\* wg.Done() alone.  A counter below zero panics.
HoboTask(i) ==
    /\ adapter = "hobolink"
    /\ i \in DOMAIN task
    /\ task[i] = "running"
    /\ task' = [task EXCEPT ![i] = "done"]
    /\ wg' = wg - 1
    /\ pc' = IF wg - 1 < 0 THEN "panicked" ELSE pc
    /\ UNCHANGED <<adapter, client, created, now, token, serials, spawned,
                   reqs, resp, result, sensors, calls, gatherErr>>

\* lines 63-64: wg.Wait() and return nil
HoboWait ==
    /\ adapter = "hobolink"
    /\ pc = "spawn"
    /\ spawned = Len(serials)
    /\ WaitReturns(wg)
    /\ pc' = "returned"
    /\ gatherErr' = "nil"
    /\ UNCHANGED <<adapter, client, created, now, token, serials, spawned, wg, task,
                   reqs, resp, result, sensors, calls>>

(***************************************************************************)
(* hobolink: HOBOlink.gatherStats called on its own for serial i (lines    *)
(* 116-127), with parseJSON (lines 68-113).  Gather never calls it.  The   *)
(* request names every configured serial number (line 79), the parameter   *)
(* serial is not read.  With a nil client h.client.Do panics.              *)
(***************************************************************************)
HoboGatherStats(i, r) ==
    /\ adapter = "hobolink"
    /\ Callable
    /\ i \in 1..Len(serials)
    /\ IF client = 0
       THEN /\ result' = CallResult("parseJSON", "panic", FALSE, <<>>, <<>>)
            /\ pc' = "panicked"
            /\ resp' = NoResponse
       ELSE /\ result' = ParseJSONResponse(r)
            /\ resp' = r
            /\ UNCHANGED pc
    /\ reqs' = <<>>
    /\ gatherErr' = "none"
    /\ UNCHANGED <<adapter, client, created, now, token, serials, spawned, wg, task,
                   sensors, calls>>

Next ==
    \/ Tick
    \/ \E tok \in Tokens : ImonnitGatherBegin(tok)
    \/ \E r \in SensorResponses : ImonnitGatherFinish(r)
    \/ \E r \in PlainResponses : ImonnitNetworkList(r)
    \/ HoboGatherBegin
    \/ HoboSpawn
    \/ \E i \in 1..MaxSerials : HoboTask(i)
    \/ HoboWait
    \/ \E i \in 1..MaxSerials, r \in PlainResponses : HoboGatherStats(i, r)

Spec == Init /\ [][Next]_vars

\* the Go scheduler runs every started goroutine, and Gather itself
FairSpec ==
    /\ Spec
    /\ WF_vars(HoboSpawn)
    /\ WF_vars(HoboWait)
    /\ \A i \in 1..MaxSerials : WF_vars(HoboTask(i))

(***************************************************************************)
(* What the properties below read off the state.                           *)
(***************************************************************************)
\* the AddFields calls made for sensor record i, in order
PointsOf(i) == SelectSeq(calls, LAMBDA c : c.src = i)
NonUnitTags(tags) == [k \in DOMAIN tags \ {"unit"} |-> tags[k]]

\* a name's segments, counted and cut at the positions of its bars
BarPositions(name) == {i \in 1..Len(name) : name[i] = "|"}
SegmentCount(name) == Cardinality(BarPositions(name)) + 1
NthBar(name, k) ==
    IF k = 0 THEN 0
    ELSE IF k > Cardinality(BarPositions(name)) THEN Len(name) + 1
    ELSE CHOOSE q \in BarPositions(name) :
            Cardinality({r \in BarPositions(name) : r <= q}) = k
Segment(name, k) == SubSeq(name, NthBar(name, k - 1) + 1, NthBar(name, k) - 1)
ExpectedNameTags(name) ==
    IF SegmentCount(name) = 9
    THEN [customer |-> Segment(name, 1), country |-> Segment(name, 2),
          store |-> Segment(name, 3), zone |-> Segment(name, 4),
          equipment |-> Segment(name, 5), equipmentType |-> Segment(name, 6),
          cargo |-> Segment(name, 7), sensor |-> Segment(name, 8),
          sensorID |-> Segment(name, 9)]
    ELSE [customer |-> name]

\* ProcessResults has run on the list of this cycle and returned
Processed == adapter = "imonnit" /\ pc = "returned" /\ gatherErr = "nil"

\* the value a text stands for: its number, and 0 for a text that is none
Denoted(t) ==
    IF \E n \in Numerals : n.text = t
    THEN (CHOOSE n \in Numerals : n.text = t).val
    ELSE Zero

(***************************************************************************)
(* C1.  Every point ProcessResults emits carries, apart from unit, the     *)
(* nine tags customer .. sensorID set to segments 1..9 of its sensor's     *)
(* name when the name has exactly nine bar-separated segments, and the     *)
(* single tag customer = the whole name for every other segment count.     *)
(***************************************************************************)
C1_TagHierarchy ==
    \A k \in 1..Len(calls) :
        NonUnitTags(calls[k].tags) = ExpectedNameTags(sensors[calls[k].src].SensorName)

\* one cycle emitted a point for a nine-segment name and a point for a
\* ten-segment name, the latter with the fallback tag alone
C1_Witness ==
    \E j, k \in 1..Len(calls) :
        /\ SegmentCount(sensors[calls[j].src].SensorName) = 9
        /\ DOMAIN NonUnitTags(calls[j].tags) # {"customer"}
        /\ SegmentCount(sensors[calls[k].src].SensorName) = 10
        /\ DOMAIN NonUnitTags(calls[k].tags) = {"customer"}

(***************************************************************************)
(* C2.  A reading "<num> kWh, Avg <x> A, Max <y> A, Min <z> A" yields two  *)
(* points with one timestamp: current = num tagged unit = kWh, then        *)
(* average = x, maximum = y, minimum = z tagged unit = amps, with the same *)
(* tags apart from unit.                                                   *)
(***************************************************************************)
C2_CompositeReading ==
    Processed =>
        \A i \in 1..Len(sensors) : \A a \in CompositeArgs :
            sensors[i].CurrentReading = CompositeThree(a[1].text, a[2].text, a[3].text, a[4].text)
            => LET pts == PointsOf(i)
               IN /\ Len(pts) = 2
                  /\ pts[1].fields = [current |-> a[1].val]
                  /\ pts[1].tags["unit"] = UnitKWh
                  /\ pts[2].fields = [average |-> a[2].val, maximum |-> a[3].val,
                                      minimum |-> a[4].val]
                  /\ pts[2].tags["unit"] = UnitAmps
                  /\ pts[1].ts = pts[2].ts
                  /\ NonUnitTags(pts[1].tags) = NonUnitTags(pts[2].tags)

(***************************************************************************)
(* C3.  A reading "<num>°..." without the kWh marker yields exactly one    *)
(* point, with the single field current = num and the tags of the name     *)
(* plus unit = C.                                                          *)
(***************************************************************************)
C3_SimpleTemperature ==
    Processed =>
        \A i \in 1..Len(sensors) : \A n \in Numerals :
            sensors[i].CurrentReading = SimpleDeg(n.text)
            => LET pts == PointsOf(i)
               IN /\ Len(pts) = 1
                  /\ pts[1].fields = [current |-> n.val]
                  /\ pts[1].tags = WithUnit(ExpectedNameTags(sensors[i].SensorName), UnitC)

(***************************************************************************)
(* C4.  Every record of the list handed to ProcessResults yields at least  *)
(* one AddFields call, whatever its name and reading.                      *)
(***************************************************************************)
C4_EveryRecordEmits ==
    (adapter = "imonnit" /\ pc \in {"returned", "panicked"}
        /\ result.op = "SensorList" /\ result.err = "nil")
    => \A i \in 1..Len(sensors) : PointsOf(i) # <<>>

(***************************************************************************)
(* C5.  A text that does not parse as a number puts 0 in its own field and *)
(* leaves the other fields of the observation with their parsed values;    *)
(* the points are emitted and ProcessResults returns no error.             *)
(***************************************************************************)
C5_ParseFailureIsZero ==
    (adapter = "imonnit" /\ pc = "returned" /\ result.op = "SensorList" /\ result.err = "nil")
    => /\ gatherErr = "nil"
       /\ \A i \in 1..Len(sensors) :
            /\ \A t \in FourTexts :
                 sensors[i].CurrentReading = CompositeFour(t[1], t[2], t[3], t[4])
                 => LET pts == PointsOf(i)
                    IN /\ Len(pts) = 2
                       /\ pts[1].fields = [current |-> Denoted(t[1])]
                       /\ pts[2].fields = [average |-> Denoted(t[2]),
                                           maximum |-> Denoted(t[3]),
                                           minimum |-> Denoted(t[4])]
            /\ \A t \in SimpleTexts :
                 sensors[i].CurrentReading = SimpleMoji(t)
                 => LET pts == PointsOf(i)
                    IN /\ Len(pts) = 1
                       /\ pts[1].fields = [current |-> Denoted(t)]

(***************************************************************************)
(* C6.  Join barrier of hobolink Gather: with N serial numbers it starts N *)
(* goroutines and has not returned while one of them is unfinished; the    *)
(* WaitGroup counter is never negative; and a Gather that has started      *)
(* returns (also for N = 0).                                               *)
(***************************************************************************)
HoboReturned == adapter = "hobolink" /\ pc = "returned" /\ gatherErr = "nil"
C6_JoinBarrier ==
    /\ [](wg >= 0)
    /\ [](HoboReturned =>
            /\ spawned = Len(serials)
            /\ \A i \in 1..Len(serials) : task[i] = "done")
    /\ ((adapter = "hobolink" /\ pc = "spawn") ~> HoboReturned)

\* a Gather over at least two serial numbers has returned
C6_Witness ==
    /\ HoboReturned
    /\ Len(serials) >= 2
    /\ \A i \in 1..Len(serials) : task[i] = "done"

(***************************************************************************)
(* C7.  A hobolink Gather over N serial numbers issues exactly N vendor    *)
(* requests, one by each goroutine before it signals completion.           *)
(***************************************************************************)
C7_OneRequestPerSerial ==
    /\ HoboReturned => Len(reqs) = Len(serials)
    /\ adapter = "hobolink"
        => \A i \in DOMAIN task : task[i] = "done" => Len(reqs) >= 1

(***************************************************************************)
(* C8.  A response with a status outside 200..299 makes the vendor call    *)
(* (parseJSON, SensorList, NetworkList) fail with an error that names the  *)
(* status received and the status expected, and its body is not handed to  *)
(* the JSON decoder.                                                       *)
(***************************************************************************)
C8_StatusChecked ==
    (result.op # "none" /\ resp.kind = "http" /\ ~Is2xx(resp.status))
    => /\ result.err = "status"
       /\ result.codes = <<resp.status, StatusOK>>
       /\ ~result.decoded

(***************************************************************************)
(* C9.  A Gather whose vendor request failed (no answer, a status outside  *)
(* 200..299, a body that is not the envelope) returns an error and has     *)
(* made no AddFields call; a Gather returns nil only when its requests     *)
(* succeeded.                                                              *)
(***************************************************************************)
RequestFailed ==
    \/ resp.kind = "transport"
    \/ resp.kind = "http" /\ (~Is2xx(resp.status) \/ ~resp.json)
    \/ result.err = "request"
C9_FailureSurfaced ==
    (pc = "returned" /\ gatherErr # "none" /\ RequestFailed)
    => gatherErr # "nil" /\ calls = <<>>

(***************************************************************************)
(* C10.  The HTTP client of one instance is constructed at most once, by   *)
(* the first Gather that reaches the nil check (an imonnit Gather with an  *)
(* empty token does not reach it); once set the field is never replaced    *)
(* nor set back to nil, also by a Gather that fails; every request of a    *)
(* Gather goes through it.                                                 *)
(***************************************************************************)
\* this step is the start of a Gather that got past the token check
GatherPastTokenCheck ==
    /\ Callable
    /\ \/ pc' \in {"request", "spawn"}
       \/ pc' = "returned" /\ gatherErr' = "request"
C10_ClientOnce ==
    [][ /\ client # 0 => client' = client
        /\ created' <= 1
        /\ (client' = 0) <=> (created' = 0)
        /\ (client = 0 /\ client' # 0) => GatherPastTokenCheck
        /\ GatherPastTokenCheck => client' # 0
        /\ \A k \in 1..Len(reqs') : reqs'[k] = client' /\ reqs'[k] # 0 ]_vars

\* a client exists and the Gather that ran after its construction failed
\* for the empty token
C10_Witness == client # 0 /\ pc = "returned" /\ gatherErr = "token"

(***************************************************************************)
(* C11.  The AddFields calls of one ProcessResults call are, in the order  *)
(* of the sensor list, one call for each reading without kWh and, for each *)
(* reading with kWh, the kWh point immediately followed by the amps point; *)
(* every call names the measurement "imonnit" and carries the one          *)
(* timestamp of the call, and its tags come from its own sensor's name.    *)
(***************************************************************************)
\* the sensor indices and units of the calls the claim expects for the
\* records i.. of a list
RECURSIVE ExpectedOrder(_, _)
ExpectedOrder(list, i) ==
    IF i > Len(list) THEN <<>>
    ELSE (IF Contains(list[i].CurrentReading, KWh)
          THEN <<[src |-> i, unit |-> UnitKWh], [src |-> i, unit |-> UnitAmps]>>
          ELSE <<[src |-> i, unit |-> UnitC]>>) \o ExpectedOrder(list, i + 1)

\* ProcessResults was called on the list of this cycle and has ended, by
\* returning or by a panic
ProcessResultsEnded ==
    /\ adapter = "imonnit"
    /\ pc \in {"returned", "panicked"}
    /\ result.op = "SensorList"
    /\ result.err = "nil"

C11_CallOrder ==
    ProcessResultsEnded =>
        /\ [k \in 1..Len(calls) |-> [src |-> calls[k].src, unit |-> calls[k].tags["unit"]]]
              = ExpectedOrder(sensors, 1)
        /\ \A k \in 1..Len(calls) :
              /\ calls[k].measurement = "imonnit"
              /\ calls[k].ts = calls[1].ts
              /\ calls[k].ts <= now
              /\ NonUnitTags(calls[k].tags)
                    = ExpectedNameTags(sensors[calls[k].src].SensorName)
====
